---- MODULE Spec2Model ----
(***************************************************************************)
(* State-machine model of IQ_SpectrumAnalyzer.py: the IQAnalyzer window    *)
(* (sample buffer, FFT selection, FFT cache, debounce timer, position      *)
(* slider, Y-axis lock) and the FFTPlotCanvas it drives.                   *)
(*                                                                         *)
(* Every event handler is one action.  A handler is written as a function  *)
(* from a record of the program's fields to the record after the handler,  *)
(* so that the calls a handler makes (including the Qt slots that a        *)
(* widget setter fires synchronously) are part of the same step.           *)
(*                                                                         *)
(* A spectrum is represented by what determines it: the buffer it was      *)
(* computed from, the segment bounds, the window kind, the FFT size and    *)
(* the sampling rate.  Magnitudes are integers (dB).                       *)
(***************************************************************************)
EXTENDS Integers, Sequences, FiniteSets, TLC

----------------------------------------------------------------------------
(* Bounds of the model *)

\* the sample index inside the buffer that mouse clicks and slider moves land on
ClickAt == 1
\* milliseconds that pass in one Tick step
TickMs == 8
\* number of cache insertions remembered in ins_log (history variable)
MaxLog == 55
\* number of selection starts walked through in the cache specification
MaxWalk == 54
\* direct compute_fft_data calls are made while the cache holds fewer entries
CallDepth == 2

----------------------------------------------------------------------------
(* Program constants *)

fft_update_delay == 16
CacheLimit == 50
DefaultFftSize == 1024
DefaultSamplingRate == 240000
SliderInitMax == 1000
AutoSpanBelow == 80
AutoSpanAbove == 10
Hysteresis == 5
\* 20*log10(1e-12), the magnitude of an all-zero bin (line 653)
FloorDb == -240

FFT_SIZES == {64, 128, 256, 512, 1024, 2048, 4096, 8192, 16384}
WINDOW_TYPES == {"Rectangle", "Hamming", "Hanning", "Blackman", "Bartlett"}

----------------------------------------------------------------------------
(* Small helpers *)

Min(a, b) == IF a < b THEN a ELSE b
Max(a, b) == IF a > b THEN a ELSE b
Abs(a) == IF a < 0 THEN 0 - a ELSE a

\* np.clip(x, lo, hi) == minimum(maximum(x, lo), hi)
Clip(x, lo, hi) == Min(Max(x, lo), hi)

----------------------------------------------------------------------------
(* The objects a file dialog can hand to open_file.                        *)
(*   ok      : a 1-D numeric array of len samples (len 0: an empty .bin    *)
(*             or .npy file)                                               *)
(*   bad     : np.load returns a 1-D array of len non-numeric strings:     *)
(*             len() works, arithmetic on the elements raises              *)
(*   unsized : np.load returns a 0-d array: len() raises TypeError         *)
(*   reject  : a text/CSV file with fewer than 2 columns, or a binary file *)
(*             with an odd count: status message and return                *)
(*   ioerror : the loader itself raises                                    *)
(*   cancel  : the dialog is dismissed (empty filename)                    *)

NoData == [kind |-> "none", id |-> 0, len |-> 0]

File(k, i, n) == [kind |-> k, id |-> i, len |-> n]

LongFile == File("ok", 1, 130)
MidFile == File("ok", 2, 66)
ShortFile == File("ok", 3, 10)
BadFile == File("bad", 4, 100)
UnsizedFile == File("unsized", 5, 0)
RejectFile == File("reject", 6, 0)
IoErrorFile == File("ioerror", 7, 0)
CancelFile == File("cancel", 8, 0)
EmptyFile == File("ok", 9, 0)
TinyFile == File("ok", 10, 3)

Files == {LongFile, MidFile, ShortFile, BadFile, UnsizedFile, RejectFile,
          IoErrorFile, CancelFile, EmptyFile}

\* whether iq_data is a buffer the analysis can run on
IsBuffer(d) == d.kind = "ok"
\* whether len(iq_data) is defined
HasLen(d) == d.kind \in {"ok", "bad"}

----------------------------------------------------------------------------
(* Program state *)

VARIABLES
  iq_data,              \* IQAnalyzer.iq_data (NoData models None)
  sampling_rate,        \* IQAnalyzer.sampling_rate (kHz here)
  fft_start_sample,     \* IQAnalyzer.fft_start_sample
  fft_size,             \* IQAnalyzer.fft_size
  dragging,             \* IQAnalyzer.dragging
  pending_fft_update,   \* IQAnalyzer.pending_fft_update
  fft_cache,            \* IQAnalyzer.fft_cache: entries in insertion order
  timer_active,         \* fft_update_timer.isActive()
  timer_remaining,      \* milliseconds until fft_update_timer times out
  slider_maximum,       \* position_slider.maximum()
  slider_value,         \* position_slider.value()
  slider_enabled,       \* position_slider.isEnabled()
  fix_y_axis_checkbox,  \* fix_y_axis_checkbox.isChecked()
  window_combo,         \* window_combo.currentText()
  fft_size_combo,       \* int(fft_size_combo.currentText())
  sampling_rate_input,  \* sampling_rate_input.value()
  toolbar_mode,         \* iq_toolbar.mode ("" when no zoom/pan tool is active)
  fixed_ylim,           \* FFTPlotCanvas.fixed_ylim (<<>> models None)
  plot_initialized,     \* FFTPlotCanvas.plot_initialized
  fft_line,             \* FFTPlotCanvas.fft_line is not None
  ylim,                 \* FFTPlotCanvas.axes.get_ylim()
  displayed,            \* the spectrum last handed to the FFT canvas
  xlabel,               \* unit in FFTPlotCanvas.axes.get_xlabel() ("" before the first plot)
  dead,                 \* the process was aborted by an exception in a Qt slot
  \* history variables (not program state)
  last_event,           \* the handler that ran last, and how it ended
  recomputes,           \* spectra delivered to the canvas by the last handler
  ins_log,              \* keys inserted into fft_cache since it was last cleared
  since_sched,          \* ms since schedule_fft_update was last called (capped)
  sched_calls,          \* schedule_fft_update calls since the timer was last idle (capped at 2)
  timer_runs,           \* timer-driven update_fft calls since the last schedule_fft_update call
  fired_after,          \* value of since_sched at the last timer-driven update_fft
  cancelled,            \* on_mouse_release stopped an armed timer since the last schedule call
  host_idle,            \* the event loop has no further user events to deliver
  first_call,           \* the first direct compute_fft_data call on the buffer held: key and result
  last_call,            \* the latest direct compute_fft_data call: key and result
  taper,                \* the window the latest direct call multiplied its segment by
  freq_bins             \* the bin numbers of the frequency axis the latest direct call built

vars == <<iq_data, sampling_rate, fft_start_sample, fft_size, dragging,
          pending_fft_update, fft_cache, timer_active, timer_remaining,
          slider_maximum, slider_value, slider_enabled, fix_y_axis_checkbox,
          window_combo, fft_size_combo, sampling_rate_input, toolbar_mode,
          fixed_ylim, plot_initialized, fft_line, ylim, displayed, xlabel,
          dead, last_event, recomputes, ins_log, since_sched, sched_calls,
          timer_runs, fired_after, cancelled, host_idle, first_call,
                 last_call, taper, freq_bins>>

NoLim == <<>>
\* matplotlib's y-limits of an empty axes
DefaultLim == <<0, 1>>

NoResult == [src |-> 0, start |-> 0, size |-> 0, win |-> "", rate |-> 0,
             actual |-> 0, unit |-> "", peak |-> 0,
             taken |-> 0, zeros |-> 0, bins |-> 0, freqs |-> 0]

\* no window applied, or one whose values are not modelled
NoTaper == [kind |-> "", vals |-> <<>>]

\* no direct call yet
NoCall == [buf |-> NoData, key |-> <<>>, val |-> NoResult]

\* The program's fields as one record; exc marks a Python exception that is
\* propagating, ret is the value compute_fft_data returned.
Cur ==
  [iq_data |-> iq_data, sampling_rate |-> sampling_rate,
   fft_start_sample |-> fft_start_sample, fft_size |-> fft_size,
   dragging |-> dragging, pending_fft_update |-> pending_fft_update,
   fft_cache |-> fft_cache, timer_active |-> timer_active,
   timer_remaining |-> timer_remaining, slider_maximum |-> slider_maximum,
   slider_value |-> slider_value, slider_enabled |-> slider_enabled,
   fix_y_axis_checkbox |-> fix_y_axis_checkbox, window_combo |-> window_combo,
   fft_size_combo |-> fft_size_combo, sampling_rate_input |-> sampling_rate_input,
   toolbar_mode |-> toolbar_mode, fixed_ylim |-> fixed_ylim,
   plot_initialized |-> plot_initialized, fft_line |-> fft_line, ylim |-> ylim,
   displayed |-> displayed, xlabel |-> xlabel, dead |-> dead,
   recomputes |-> 0, ins_log |-> ins_log, since_sched |-> since_sched,
   sched_calls |-> sched_calls, timer_runs |-> timer_runs,
   fired_after |-> fired_after, cancelled |-> cancelled,
   exc |-> FALSE, ret |-> NoResult]

\* The program's fields after a handler that ended in record r, recorded as
\* event e.
CommitFields(r, e) ==
  /\ iq_data' = r.iq_data
  /\ sampling_rate' = r.sampling_rate
  /\ fft_start_sample' = r.fft_start_sample
  /\ fft_size' = r.fft_size
  /\ dragging' = r.dragging
  /\ pending_fft_update' = r.pending_fft_update
  /\ fft_cache' = r.fft_cache
  /\ timer_active' = r.timer_active
  /\ timer_remaining' = r.timer_remaining
  /\ slider_maximum' = r.slider_maximum
  /\ slider_value' = r.slider_value
  /\ slider_enabled' = r.slider_enabled
  /\ fix_y_axis_checkbox' = r.fix_y_axis_checkbox
  /\ window_combo' = r.window_combo
  /\ fft_size_combo' = r.fft_size_combo
  /\ sampling_rate_input' = r.sampling_rate_input
  /\ toolbar_mode' = r.toolbar_mode
  /\ fixed_ylim' = r.fixed_ylim
  /\ plot_initialized' = r.plot_initialized
  /\ fft_line' = r.fft_line
  /\ ylim' = r.ylim
  /\ displayed' = r.displayed
  /\ xlabel' = r.xlabel
  /\ dead' = r.dead
  /\ last_event' = e
  /\ recomputes' = r.recomputes
  /\ ins_log' = r.ins_log
  /\ since_sched' = r.since_sched
  /\ sched_calls' = r.sched_calls
  /\ timer_runs' = r.timer_runs
  /\ fired_after' = r.fired_after
  /\ cancelled' = r.cancelled
  /\ host_idle' = host_idle

\* The state after an event handler that ended in record r.
Commit(r, e) == CommitFields(r, e) /\ UNCHANGED <<first_call, last_call, taper, freq_bins>>

\* __init__ and create_control_panel
Init ==
  /\ iq_data = NoData
  /\ sampling_rate = DefaultSamplingRate
  /\ fft_start_sample = 0
  /\ fft_size = DefaultFftSize
  /\ dragging = FALSE
  /\ pending_fft_update = FALSE
  /\ fft_cache = <<>>
  /\ timer_active = FALSE
  /\ timer_remaining = 0
  /\ slider_maximum = SliderInitMax
  /\ slider_value = 0
  /\ slider_enabled = FALSE
  /\ fix_y_axis_checkbox = FALSE
  /\ window_combo = "Hamming"
  /\ fft_size_combo = DefaultFftSize
  /\ sampling_rate_input = DefaultSamplingRate
  /\ toolbar_mode = ""
  /\ fixed_ylim = NoLim
  /\ plot_initialized = FALSE
  /\ fft_line = FALSE
  /\ ylim = DefaultLim
  /\ displayed = NoResult
  /\ xlabel = ""
  /\ dead = FALSE
  /\ last_event = "init"
  /\ recomputes = 0
  /\ ins_log = <<>>
  /\ since_sched = 0
  /\ sched_calls = 0
  /\ timer_runs = 0
  /\ fired_after = 0
  /\ cancelled = FALSE
  /\ host_idle = FALSE
  /\ first_call = NoCall
  /\ last_call = NoCall
  /\ taper = NoTaper
  /\ freq_bins = <<>>

----------------------------------------------------------------------------
(* Exceptions *)

\* a Python exception is raised: the rest of the handler is skipped
Raise(s) == [s EXCEPT !.exc = TRUE]

\* nothing more of the handler runs
Stopped(s) == s.exc \/ s.dead

\* An exception that leaves a Qt slot: PyQt5 (5.5 and later, no excepthook
\* installed) calls qFatal() and the process is aborted.
Slot(r) == IF r.exc THEN [r EXCEPT !.exc = FALSE, !.dead = TRUE] ELSE r

\* An exception that leaves a matplotlib callback is printed by the callback
\* registry, and one inside open_file's try block is caught at line 763: the
\* event loop goes on.
Caught(r) == [r EXCEPT !.exc = FALSE]

----------------------------------------------------------------------------
(* numpy's window functions in IEEE double arithmetic *)

\* A double that is a whole number of 2^-56 is held as <<hi, lo>>, worth
\* (hi * 2^28 + lo) * 2^-56 with 0 <= lo < 2^28.
FNorm(hi, lo) == <<hi + (lo \div 268435456), lo % 268435456>>

FNeg(a) == FNorm(-a[1], -a[2])

\* the spacing of doubles around a >= 0, in units of 2^-56: 2^-52 from 1.0,
\* 2^-53 from 0.5, 2^-54 from 0.25, 2^-55 from 0.125, and at most 2^-56 below
FUlp(a) ==
  IF a[1] >= 268435456 THEN 16
  ELSE IF a[1] >= 134217728 THEN 8
  ELSE IF a[1] >= 67108864 THEN 4
  ELSE IF a[1] >= 33554432 THEN 2
  ELSE 1

\* round to nearest, ties to even
FRoundAbs(a) ==
  LET g == FUlp(a)
      r == a[2] % g
      down == a[2] - r
  IN  FNorm(a[1], IF 2 * r > g \/ (2 * r = g /\ (down \div g) % 2 = 1)
                  THEN down + g ELSE down)

FRound(a) == IF a[1] < 0 THEN FNeg(FRoundAbs(FNeg(a))) ELSE FRoundAbs(a)

\* a + b of two doubles
FAdd(a, b) == FRound(FNorm(a[1] + b[1], a[2] + b[2]))

\* c * a for c = 1.0 or -1.0
FScale(c, a) == IF c = 1 THEN a ELSE FNeg(a)

\* the doubles nearest to the literals of numpy's window formulas:
\* 0x1.ae147ae147ae1p-2, 0x1.47ae147ae147bp-4, 0x1.147ae147ae148p-1,
\* 0x1.d70a3d70a3d71p-2
FZero == <<0, 0>>
FOne == <<268435456, 0>>
FHalf == <<134217728, 0>>
F042 == <<112742891, 139586436>>
F008 == <<21474836, 128849019>>
F054 == <<144955146, 64424512>>
F046 == <<123480309, 204010948>>

FLeq(a, b) == a[1] < b[1] \/ (a[1] = b[1] /\ a[2] <= b[2])

\* the segment lengths whose window values are modelled: up to 3 samples
\* every angle pi*n/(M-1) is a whole multiple of pi, where cos returns
\* exactly 1.0 or -1.0
TaperLens == {0, 1, 2, 3}

\* n of arange(1 - M, M, 2) at position i = 1..M, divided by M - 1
TaperTurn(M, i) == (1 - M + 2 * (i - 1)) \div (M - 1)

\* cos(q * pi)
CosPi(q) == IF q % 2 = 0 THEN 1 ELSE -1

\* np.hamming(M): 0.54 + 0.46*cos(pi*n/(M-1)); ones(1) for M = 1
hamming(M) ==
  [i \in 1..M |-> IF M = 1 THEN FOne
                  ELSE FAdd(F054, FScale(CosPi(TaperTurn(M, i)), F046))]

\* np.hanning(M): 0.5 + 0.5*cos(pi*n/(M-1))
hanning(M) ==
  [i \in 1..M |-> IF M = 1 THEN FOne
                  ELSE FAdd(FHalf, FScale(CosPi(TaperTurn(M, i)), FHalf))]

\* np.blackman(M): 0.42 + 0.5*cos(pi*n/(M-1)) + 0.08*cos(2.0*pi*n/(M-1))
blackman(M) ==
  [i \in 1..M |-> IF M = 1 THEN FOne
                  ELSE FAdd(FAdd(F042, FScale(CosPi(TaperTurn(M, i)), FHalf)),
                            FScale(CosPi(2 * TaperTurn(M, i)), F008))]

\* np.bartlett(M): 1 + n/(M-1) for n <= 0, 1 - n/(M-1) for n > 0
bartlett(M) ==
  [i \in 1..M |-> IF M = 1 \/ TaperTurn(M, i) = 0 THEN FOne ELSE FZero]

----------------------------------------------------------------------------
(* compute_fft_data: the spectrum and the cache *)

\* np.max(fft_mag) of the spectrum of the segment starting at start_sample:
\* it depends on the samples; the model gives every buffer a level and lets
\* it vary with the segment by less than, by exactly and by more than the
\* hysteresis.
\* A segment without samples is padded to zeros only, and every bin is
\* 20*log10(0 + 1e-12).
PeakOffsets == <<0, 4, 9>>

PeakDb(buf, start_sample) ==
  IF buf.len <= start_sample THEN FloorDb
  ELSE 10 * buf.id + PeakOffsets[(start_sample % 3) + 1]

\* np.fft.fftfreq(n, d) is the integer array 0 .. (n-1) div 2 followed by
\* -(n div 2) .. -1, multiplied by 1/(n*d), which for d = 1/rate is rate/n;
\* the integers are kept here
fftfreq(n) ==
  [i \in 1..n |-> IF i <= ((n - 1) \div 2) + 1 THEN i - 1 ELSE i - 1 - n]

\* faulty variant of fftshift: the array is returned as it is
fftshift_None(x) == x

\* np.fft.fftshift(x): the array rolled by len(x) div 2 to the right
fftshift(x) ==
  [i \in 1..Len(x) |-> x[((i - 1 - (Len(x) \div 2)) % Len(x)) + 1]]

\* Sampling rates are counted in kHz: the code holds them in MHz as floats
\* (240.0 is 240000 here, 0.001 is 1) and multiplies by 1e6 at line 656.
\* max(abs(freq_axis)) > k kHz, without leaving TLC's integers: the largest
\* |bin frequency| of fftshift(fftfreq(n, 1/rate)) is that of bin -(n div 2),
\* (n div 2) * rate / n
MaxAbsFreqExceeds(rate, n, k) ==
  LET a == (n \div 2) * rate
  IN  a \div n > k \/ (a \div n = k /\ a % n > 0)

\* faulty variant of AxisDivisor: the thresholds are inclusive
AxisDivisor_Inclusive(rate, n) ==
  IF (n \div 2) * rate >= 1000 * n THEN "1e6"
  ELSE IF (n \div 2) * rate >= n THEN "1e3"
  ELSE "1"

\* the divisor applied to the frequency axis (lines 660-665): 1e6 Hz is
\* 1000 kHz, 1e3 Hz is 1 kHz
AxisDivisor(rate, n) ==
  IF MaxAbsFreqExceeds(rate, n, 1000) THEN "1e6"
  ELSE IF MaxAbsFreqExceeds(rate, n, 1) THEN "1e3"
  ELSE "1"

\* lines 631-644: the taper applied for a window kind, compared in lower
\* case; a kind that is none of the five falls to the else branch, which
\* leaves the segment as it is
WindowApplied(window_type) ==
  CASE window_type \in {"Rectangle", "rectangle"} -> "rectangle"
    [] window_type \in {"Hamming", "hamming"} -> "hamming"
    [] window_type \in {"Hanning", "hanning"} -> "hanning"
    [] window_type \in {"Blackman", "blackman"} -> "blackman"
    [] window_type \in {"Bartlett", "bartlett"} -> "bartlett"
    [] OTHER -> "rectangle"

\* lines 631-644: what the segment of M samples is multiplied by; the
\* rectangle and the else branch leave the segment as it is
WindowValues(window_type, M) ==
  IF M \notin TaperLens THEN NoTaper
  ELSE [kind |-> WindowApplied(window_type),
        vals |-> CASE WindowApplied(window_type) = "hamming" -> hamming(M)
                   [] WindowApplied(window_type) = "hanning" -> hanning(M)
                   [] WindowApplied(window_type) = "blackman" -> blackman(M)
                   [] WindowApplied(window_type) = "bartlett" -> bartlett(M)
                   [] OTHER -> [i \in 1..M |-> FOne]]

\* len(data_segment) of iq_data[start_sample:end_sample] (lines 628-629): a
\* slice that starts at or past its end is empty
SegmentLen(buf, start_sample, n) ==
  Max(0, Min(buf.len, start_sample + n) - Min(buf.len, start_sample))

\* faulty variant of ZeroPad: a short segment is not extended
ZeroPad_None(taken, n) == 0

\* lines 647-650: the zeros written after a segment shorter than fft_size
ZeroPad(taken, n) == IF taken < n THEN n - taken ELSE 0

\* line 653: np.fft.fft(a, n) crops a longer input to n values and pads a
\* shorter one with zeros
FftLen(input_len, n) == n

\* lines 627-667: the result computed from buffer buf on a cache miss
ComputeSpectrum(buf, start_sample, n, window_type, rate) ==
  LET end_sample == Min(buf.len, start_sample + n)
      taken == SegmentLen(buf, start_sample, n)
  IN [src |-> buf.id, start |-> start_sample, size |-> n, win |-> WindowApplied(window_type),
      rate |-> rate, actual |-> end_sample - start_sample,
      unit |-> AxisDivisor(rate, n), peak |-> PeakDb(buf, start_sample),
      \* the samples of the buffer in data_segment, the zeros that follow
      \* them, len(fft_mag) and len(freq_data)
      taken |-> taken, zeros |-> ZeroPad(taken, n),
      bins |-> FftLen(taken + ZeroPad(taken, n), n), freqs |-> n]

CacheKeys(cache) == [i \in 1..Len(cache) |-> cache[i].key]

CacheHas(cache, k) == \E i \in 1..Len(cache) : cache[i].key = k

CacheGet(cache, k) == cache[CHOOSE i \in 1..Len(cache) : cache[i].key = k].val

\* faulty variant of EvictOldest: the newest entry is dropped instead of the oldest
EvictOldest_Newest(cache) ==
  IF Len(cache) > CacheLimit THEN SubSeq(cache, 1, Len(cache) - 1) ELSE cache

\* lines 669-673: make room before the insertion
EvictOldest(cache) ==
  IF Len(cache) > CacheLimit THEN Tail(cache) ELSE cache

\* lines 669-675
CacheStore(cache, k, result) ==
  Append(EvictOldest(cache), [key |-> k, val |-> result])

\* history: the keys inserted since the last clear
LogInsert(log, k) == IF Len(log) < MaxLog THEN Append(log, k) ELSE log

\* fft_cache.clear()
ClearCache(s) == [s EXCEPT !.fft_cache = <<>>, !.ins_log = <<>>]

\* faulty variant of compute_fft_data: the window is read from the combo box
\* instead of the argument
compute_fft_data_ComboWindow(s, start_sample, n, window_type, rate) ==
  LET cache_key == <<start_sample, n, window_type, rate>>
  IN IF Stopped(s) THEN s
     ELSE IF CacheHas(s.fft_cache, cache_key)
       THEN [s EXCEPT !.ret = CacheGet(s.fft_cache, cache_key)]
     ELSE IF ~IsBuffer(s.iq_data) THEN Raise(s)
     ELSE LET result == ComputeSpectrum(s.iq_data, start_sample, n,
                                        s.window_combo, rate)
          IN [s EXCEPT !.fft_cache = CacheStore(s.fft_cache, cache_key, result),
                       !.ins_log = LogInsert(s.ins_log, cache_key),
                       !.ret = result]

\* faulty variant of compute_fft_data: a hit stores the entry again, as the
\* newest one
compute_fft_data_Refresh(s, start_sample, n, window_type, rate) ==
  LET cache_key == <<start_sample, n, window_type, rate>>
  IN IF Stopped(s) THEN s
     ELSE IF CacheHas(s.fft_cache, cache_key)
       THEN [s EXCEPT !.ret = CacheGet(s.fft_cache, cache_key),
                      !.fft_cache = Append(SelectSeq(s.fft_cache,
                                             LAMBDA e : e.key # cache_key),
                                           [key |-> cache_key,
                                            val |-> CacheGet(s.fft_cache, cache_key)])]
     ELSE IF ~IsBuffer(s.iq_data) THEN Raise(s)
     ELSE LET result == ComputeSpectrum(s.iq_data, start_sample, n, window_type, rate)
          IN [s EXCEPT !.fft_cache = CacheStore(s.fft_cache, cache_key, result),
                       !.ins_log = LogInsert(s.ins_log, cache_key),
                       !.ret = result]

compute_fft_data(s, start_sample, n, window_type, rate) ==
  LET cache_key == <<start_sample, n, window_type, rate>>
  IN IF Stopped(s) THEN s
     ELSE IF CacheHas(s.fft_cache, cache_key)
       THEN [s EXCEPT !.ret = CacheGet(s.fft_cache, cache_key)]
     \* len(self.iq_data) of a 0-d array, or arithmetic on non-numeric elements
     ELSE IF ~IsBuffer(s.iq_data) THEN Raise(s)
     ELSE LET result == ComputeSpectrum(s.iq_data, start_sample, n, window_type, rate)
          IN [s EXCEPT !.fft_cache = CacheStore(s.fft_cache, cache_key, result),
                       !.ins_log = LogInsert(s.ins_log, cache_key),
                       !.ret = result]

----------------------------------------------------------------------------
(* FFTPlotCanvas *)

AutoLim(m) == <<m - AutoSpanBelow, m + AutoSpanAbove>>

\* the factor, in Hz, by which compute_fft_data divided the axis of res
DivisorHz(unit) ==
  CASE unit = "1e6" -> 1000000
    [] unit = "1e3" -> 1000
    [] OTHER -> 1

\* lines 130-136: the unit of the x label, chosen from max(abs(freq_data)) of
\* the axis it is handed, i.e. of the raw axis divided by DivisorHz:
\* raw / d > 1e6 Hz when raw > 1000 * d kHz, raw / d > 1e3 Hz when raw > d kHz
AxisLabel(res) ==
  LET d == DivisorHz(res.unit)
  IN  IF MaxAbsFreqExceeds(res.rate, res.size, 1000 * d) THEN "MHz"
      ELSE IF MaxAbsFreqExceeds(res.rate, res.size, d) THEN "kHz"
      ELSE "Hz"

initialize_fft_plot(s, res, fix_y_axis) ==
  [s EXCEPT !.fft_line = TRUE,
            !.xlabel = AxisLabel(res),
            !.ylim = IF fix_y_axis /\ s.fixed_ylim # NoLim
                     THEN s.fixed_ylim ELSE AutoLim(res.peak),
            !.plot_initialized = TRUE,
            !.displayed = res]

\* faulty variant of NeedsRescale: a difference of exactly the hysteresis counts
NeedsRescale_Inclusive(current_ylim, new_ylim) ==
  \/ Abs(current_ylim[1] - new_ylim[1]) >= Hysteresis
  \/ Abs(current_ylim[2] - new_ylim[2]) >= Hysteresis

\* lines 115-118
NeedsRescale(current_ylim, new_ylim) ==
  \/ Abs(current_ylim[1] - new_ylim[1]) > Hysteresis
  \/ Abs(current_ylim[2] - new_ylim[2]) > Hysteresis

\* faulty variant of update_fft_data_fast: the fixed limits are ignored
update_fft_data_fast_NoLock(s, res, fix_y_axis) ==
  IF ~s.fft_line \/ ~s.plot_initialized
  THEN initialize_fft_plot(s, res, fix_y_axis)
  ELSE [s EXCEPT !.displayed = res,
                 !.ylim = IF NeedsRescale(s.ylim, AutoLim(res.peak))
                          THEN AutoLim(res.peak) ELSE s.ylim]

\* faulty variant of update_fft_data_fast: an unlocked fast update never
\* moves the vertical range
update_fft_data_fast_Keep(s, res, fix_y_axis) ==
  IF ~s.fft_line \/ ~s.plot_initialized
  THEN initialize_fft_plot(s, res, fix_y_axis)
  ELSE [s EXCEPT !.displayed = res,
                 !.ylim = IF fix_y_axis /\ s.fixed_ylim # NoLim THEN s.fixed_ylim
                          ELSE s.ylim]

update_fft_data_fast(s, res, fix_y_axis) ==
  IF ~s.fft_line \/ ~s.plot_initialized
  THEN initialize_fft_plot(s, res, fix_y_axis)
  ELSE [s EXCEPT !.displayed = res,
                 !.ylim = IF fix_y_axis /\ s.fixed_ylim # NoLim THEN s.fixed_ylim
                          ELSE IF ~fix_y_axis /\ NeedsRescale(s.ylim, AutoLim(res.peak))
                            THEN AutoLim(res.peak)
                          ELSE s.ylim]

\* faulty variant of lock_y_axis: the automatic range of the spectrum shown is
\* stored, not the range on display
lock_y_axis_Auto(s) == [s EXCEPT !.fixed_ylim = AutoLim(s.displayed.peak)]

lock_y_axis(s) == [s EXCEPT !.fixed_ylim = s.ylim]

unlock_y_axis(s) == [s EXCEPT !.fixed_ylim = NoLim]

reset_zoom_state(s) == [s EXCEPT !.fixed_ylim = NoLim]

----------------------------------------------------------------------------
(* IQAnalyzer: recomputation and the debounce timer *)

update_fft(s) ==
  IF Stopped(s) \/ s.iq_data = NoData THEN s
  ELSE LET s1 == [s EXCEPT !.sampling_rate = s.sampling_rate_input]
           s2 == compute_fft_data(s1, s1.fft_start_sample, s1.fft_size,
                                  s1.window_combo, s1.sampling_rate)
       IN IF Stopped(s2) THEN s2
          ELSE [update_fft_data_fast(s2, s2.ret, s2.fix_y_axis_checkbox)
                  EXCEPT !.recomputes = s2.recomputes + 1]

update_fft_with_auto_scale(s) ==
  IF Stopped(s) \/ s.iq_data = NoData THEN s
  ELSE LET s1 == [s EXCEPT !.sampling_rate = s.sampling_rate_input]
           s2 == compute_fft_data(s1, s1.fft_start_sample, s1.fft_size,
                                  s1.window_combo, s1.sampling_rate)
       IN IF Stopped(s2) THEN s2
          ELSE [initialize_fft_plot([s2 EXCEPT !.plot_initialized = FALSE],
                                    s2.ret, FALSE)
                  EXCEPT !.recomputes = s2.recomputes + 1]

\* QTimer.stop()
TimerStop(s) == [s EXCEPT !.timer_active = FALSE]

\* QTimer.start(msec) of a single-shot timer
TimerStart(s, msec) == [s EXCEPT !.timer_active = TRUE, !.timer_remaining = msec]

\* faulty variant of schedule_fft_update: a running timer is left running, not restarted
schedule_fft_update_NoRestart(s) ==
  IF Stopped(s) THEN s
  ELSE LET armed == s.timer_active
           s0 == [s EXCEPT !.pending_fft_update = TRUE]
           s1 == IF armed THEN s0 ELSE TimerStart(s0, fft_update_delay)
       IN [s1 EXCEPT !.since_sched = 0, !.timer_runs = 0, !.cancelled = FALSE,
                     !.sched_calls = IF armed THEN Min(2, s.sched_calls + 1) ELSE 1]

schedule_fft_update(s) ==
  IF Stopped(s) THEN s
  ELSE LET armed == s.timer_active
           s1 == TimerStart(TimerStop([s EXCEPT !.pending_fft_update = TRUE]),
                            fft_update_delay)
       IN [s1 EXCEPT !.since_sched = 0, !.timer_runs = 0, !.cancelled = FALSE,
                     !.sched_calls = IF armed THEN Min(2, s.sched_calls + 1) ELSE 1]

\* faulty variant of delayed_fft_update: the pending flag is cleared, nothing is recomputed
delayed_fft_update_Drop(s) ==
  [s EXCEPT !.pending_fft_update = FALSE,
            !.timer_runs = Min(2, s.timer_runs + 1),
            !.fired_after = s.since_sched]

delayed_fft_update(s) ==
  IF s.pending_fft_update
  THEN LET s1 == update_fft([s EXCEPT !.pending_fft_update = FALSE])
       IN [s1 EXCEPT !.timer_runs = Min(2, s.timer_runs + 1),
                     !.fired_after = s.since_sched]
  ELSE s

----------------------------------------------------------------------------
(* IQAnalyzer: selection and position slider *)

\* max(0, len(self.iq_data) - self.fft_size)
MaxStart(s) == Max(0, s.iq_data.len - s.fft_size)

\* faulty variant of ClampStart: the upper limit ignores the FFT size
ClampStart_NoFit(s, x) == Clip(x, 0, Max(0, s.iq_data.len - 1))

\* np.clip(x, 0, max(0, len(self.iq_data) - self.fft_size))
ClampStart(s, x) == Clip(x, 0, MaxStart(s))

\* faulty variant of update_fft_position: the selection moves and no update
\* is scheduled
update_fft_position_NoSchedule(s) ==
  IF Stopped(s) \/ s.iq_data = NoData THEN s
  ELSE IF ~HasLen(s.iq_data) THEN Raise(s)
  ELSE [s EXCEPT !.fft_start_sample = ClampStart(s, s.slider_value)]

\* update_fft_region_only moves the highlight rectangle only; it is called
\* after len(self.iq_data) has already been evaluated by its caller.
update_fft_position(s) ==
  IF Stopped(s) \/ s.iq_data = NoData THEN s
  ELSE IF ~HasLen(s.iq_data) THEN Raise(s)
  ELSE LET new_fft_start_sample == ClampStart(s, s.slider_value)
       IN IF new_fft_start_sample # s.fft_start_sample
          THEN schedule_fft_update(
                 [s EXCEPT !.fft_start_sample = new_fft_start_sample])
          ELSE s

\* QAbstractSlider.setValue: the value is bounded to [minimum, maximum];
\* valueChanged is emitted (unless signals are blocked) when it changes,
\* and runs the connected slot update_fft_position before setValue returns.
SliderSetValue(s, v, signals) ==
  IF Stopped(s) THEN s
  ELSE LET b == Clip(v, 0, s.slider_maximum)
       IN IF b = s.slider_value THEN s
          ELSE IF signals
            THEN Slot(update_fft_position([s EXCEPT !.slider_value = b]))
          ELSE [s EXCEPT !.slider_value = b]

\* QAbstractSlider.setMaximum: a changed range re-bounds the value
SliderSetMaximum(s, m) ==
  IF Stopped(s) \/ m = s.slider_maximum THEN s
  ELSE SliderSetValue([s EXCEPT !.slider_maximum = m], s.slider_value, TRUE)

\* faulty variant of update_position_controls: the slider value is not set
update_position_controls_NoValue(s) ==
  IF Stopped(s) THEN s
  ELSE IF s.iq_data # NoData
    THEN IF ~HasLen(s.iq_data) THEN Raise(s)
         ELSE SliderSetMaximum(s, MaxStart(s))
  ELSE SliderSetMaximum(s, 0)

update_position_controls(s) ==
  IF Stopped(s) THEN s
  ELSE LET s1 == IF s.iq_data # NoData
                 THEN IF ~HasLen(s.iq_data) THEN Raise(s)
                      ELSE SliderSetMaximum(s, MaxStart(s))
                 ELSE SliderSetMaximum(s, 0)
       IN SliderSetValue(s1, s1.fft_start_sample, FALSE)

\* plot_iq_data redraws the waveform: np.arange(len(iq_data)) and
\* np.abs(iq_data) raise on an object that is no numeric 1-D array
plot_iq_data(s) ==
  IF Stopped(s) \/ s.iq_data = NoData THEN s
  ELSE IF ~IsBuffer(s.iq_data) THEN Raise(s)
  ELSE s

toggle_y_axis_lock(s, checked) ==
  IF checked THEN lock_y_axis(s) ELSE update_fft(unlock_y_axis(s))

\* QCheckBox.setChecked: stateChanged runs toggle_y_axis_lock when the state changes
SetChecked(s, c) ==
  IF Stopped(s) \/ s.fix_y_axis_checkbox = c THEN s
  ELSE Slot(toggle_y_axis_lock([s EXCEPT !.fix_y_axis_checkbox = c], c))

----------------------------------------------------------------------------
(* IQAnalyzer: mouse handlers (matplotlib callbacks) *)

\* faulty variant of on_mouse_press: the clicked sample is taken unclamped
on_mouse_press_NoClamp(s, inaxes, button, xdata) ==
  IF ~inaxes \/ s.iq_data = NoData THEN s
  ELSE IF s.toolbar_mode # "" THEN s
  ELSE IF button # 1 THEN s
  ELSE LET s1 == [s EXCEPT !.dragging = TRUE]
       IN IF ~HasLen(s1.iq_data) THEN Raise(s1)
          ELSE schedule_fft_update(update_position_controls(
                 [s1 EXCEPT !.fft_start_sample = Max(0, xdata)]))

\* xdata is int(event.xdata); inaxes is event.inaxes == self.iq_canvas.axes
on_mouse_press(s, inaxes, button, xdata) ==
  IF ~inaxes \/ s.iq_data = NoData THEN s
  ELSE IF s.toolbar_mode # "" THEN s
  ELSE IF button # 1 THEN s
  ELSE LET s1 == [s EXCEPT !.dragging = TRUE]
       IN IF ~HasLen(s1.iq_data) THEN Raise(s1)
          ELSE schedule_fft_update(update_position_controls(
                 [s1 EXCEPT !.fft_start_sample = ClampStart(s1, xdata)]))

\* faulty variant of on_mouse_move: the spectrum is recomputed at once
on_mouse_move_Sync(s, inaxes, xdata) ==
  IF ~s.dragging \/ ~inaxes \/ s.iq_data = NoData THEN s
  ELSE IF s.toolbar_mode # "" THEN s
  ELSE IF ~HasLen(s.iq_data) THEN Raise(s)
  ELSE LET new_fft_start_sample == ClampStart(s, xdata)
       IN IF new_fft_start_sample # s.fft_start_sample
          THEN update_fft(update_position_controls(
                 [s EXCEPT !.fft_start_sample = new_fft_start_sample]))
          ELSE s

on_mouse_move(s, inaxes, xdata) ==
  IF ~s.dragging \/ ~inaxes \/ s.iq_data = NoData THEN s
  ELSE IF s.toolbar_mode # "" THEN s
  ELSE IF ~HasLen(s.iq_data) THEN Raise(s)
  ELSE LET new_fft_start_sample == ClampStart(s, xdata)
       IN IF new_fft_start_sample # s.fft_start_sample
          THEN schedule_fft_update(update_position_controls(
                 [s EXCEPT !.fft_start_sample = new_fft_start_sample]))
          ELSE s

\* faulty variant of on_mouse_release: the pending flag is cleared and the
\* timer is left running
on_mouse_release_ClearPending(s) ==
  IF s.toolbar_mode # "" THEN [s EXCEPT !.dragging = FALSE]
  ELSE LET was_dragging == s.dragging
           s1 == [s EXCEPT !.dragging = FALSE]
       IN IF s1.iq_data # NoData /\ was_dragging
          THEN update_fft([s1 EXCEPT !.pending_fft_update = FALSE])
          ELSE s1

\* faulty variant of on_mouse_release: the pending timer is not stopped
on_mouse_release_NoStop(s) ==
  IF s.toolbar_mode # "" THEN [s EXCEPT !.dragging = FALSE]
  ELSE LET was_dragging == s.dragging
           s1 == [s EXCEPT !.dragging = FALSE]
       IN IF s1.iq_data # NoData /\ was_dragging
          THEN update_fft([s1 EXCEPT !.cancelled = s1.cancelled \/ s1.timer_active])
          ELSE s1

\* faulty variant of on_mouse_release: the toolbar mode is not looked at
on_mouse_release_AnyMode(s) ==
  LET was_dragging == s.dragging
      s1 == [s EXCEPT !.dragging = FALSE]
  IN IF s1.iq_data # NoData /\ was_dragging
     THEN update_fft([TimerStop(s1) EXCEPT
                         !.cancelled = s1.cancelled \/ s1.timer_active])
     ELSE s1

on_mouse_release(s) ==
  IF s.toolbar_mode # "" THEN [s EXCEPT !.dragging = FALSE]
  ELSE LET was_dragging == s.dragging
           s1 == [s EXCEPT !.dragging = FALSE]
       IN IF s1.iq_data # NoData /\ was_dragging
          THEN update_fft([TimerStop(s1) EXCEPT
                              !.cancelled = s1.cancelled \/ s1.timer_active])
          ELSE s1

----------------------------------------------------------------------------
(* IQAnalyzer: loading and parameter changes (Qt slots) *)

\* faulty variant of open_file: the lock checkbox is not reset
open_file_KeepLock(s, f) ==
  IF f.kind \in {"cancel", "reject"} THEN s
  ELSE IF f.kind = "ioerror" THEN Raise(s)
  ELSE LET s1 == [s EXCEPT !.iq_data = f]
       IN IF ~HasLen(f) THEN Raise(s1)
          ELSE LET s2 == ClearCache([s1 EXCEPT !.fft_start_sample = 0,
                                               !.fft_size = s1.fft_size_combo])
                   s3 == SliderSetMaximum([s2 EXCEPT !.slider_enabled = TRUE],
                                          MaxStart(s2))
                   s4 == SliderSetValue(s3, s3.fft_start_sample, TRUE)
                   s5 == IF Stopped(s4) THEN s4
                         ELSE [reset_zoom_state(s4) EXCEPT !.plot_initialized = FALSE]
               IN update_fft(plot_iq_data(s5))

\* The try block of open_file for the object f chosen in the dialog; the
\* record returned still carries exc when the except clause was entered.
open_file(s, f) ==
  IF f.kind \in {"cancel", "reject"} THEN s
  ELSE IF f.kind = "ioerror" THEN Raise(s)
  ELSE LET s1 == [s EXCEPT !.iq_data = f]
       IN IF ~HasLen(f) THEN Raise(s1)
          ELSE LET s2 == ClearCache([s1 EXCEPT !.fft_start_sample = 0,
                                               !.fft_size = s1.fft_size_combo])
                   s3 == SliderSetMaximum([s2 EXCEPT !.slider_enabled = TRUE],
                                          MaxStart(s2))
                   s4 == SliderSetValue(s3, s3.fft_start_sample, TRUE)
                   s5 == IF Stopped(s4) THEN s4
                         ELSE [reset_zoom_state(s4) EXCEPT !.plot_initialized = FALSE]
                   s6 == SetChecked(s5, FALSE)
                   s7 == plot_iq_data(s6)
               IN update_fft(s7)

\* faulty variant of update_fft_size: the cache is kept
update_fft_size_NoClear(s, n) ==
  LET s0 == [s EXCEPT !.fft_size_combo = n]
      s1 == [s0 EXCEPT !.fft_size = s0.fft_size_combo]
  IN IF s1.iq_data = NoData THEN s1
     ELSE IF ~HasLen(s1.iq_data) THEN Raise(s1)
     ELSE LET s2 == SliderSetMaximum(s1, MaxStart(s1))
              s3 == IF Stopped(s2) THEN s2
                    ELSE [s2 EXCEPT !.fft_start_sample =
                                       ClampStart(s2, s2.fft_start_sample)]
              s4 == update_position_controls(s3)
              s5 == plot_iq_data(s4)
          IN update_fft(s5)

\* the user picks size n in fft_size_combo
update_fft_size(s, n) ==
  LET s0 == [s EXCEPT !.fft_size_combo = n]
      s1 == ClearCache([s0 EXCEPT !.fft_size = s0.fft_size_combo])
  IN IF s1.iq_data = NoData THEN s1
     ELSE IF ~HasLen(s1.iq_data) THEN Raise(s1)
     ELSE LET s2 == SliderSetMaximum(s1, MaxStart(s1))
              s3 == IF Stopped(s2) THEN s2
                    ELSE [s2 EXCEPT !.fft_start_sample =
                                       ClampStart(s2, s2.fft_start_sample)]
              s4 == update_position_controls(s3)
              s5 == plot_iq_data(s4)
          IN update_fft(s5)

\* faulty variant of invalidate_fft_cache: the cache is kept
invalidate_fft_cache_NoClear(s, w) ==
  update_fft([s EXCEPT !.window_combo = w])

\* the user picks window w in window_combo
invalidate_fft_cache(s, w) ==
  update_fft(ClearCache([s EXCEPT !.window_combo = w]))

\* the user enters rate r in sampling_rate_input
update_sampling_rate(s, r) ==
  LET s0 == [s EXCEPT !.sampling_rate_input = r]
      s1 == [s0 EXCEPT !.sampling_rate = s0.sampling_rate_input]
  IN IF s1.iq_data = NoData THEN s1
     ELSE LET s2 == ClearCache([reset_zoom_state(s1) EXCEPT !.plot_initialized = FALSE])
              s3 == SetChecked(s2, FALSE)
          IN update_fft_with_auto_scale(s3)

\* faulty variant of custom_fft_home_function: the lock checkbox stays as it is
custom_fft_home_function_KeepBox(s) ==
  IF s.iq_data = NoData THEN s
  ELSE LET s1 == reset_zoom_state(s)
           s2 == [s1 EXCEPT !.plot_initialized = FALSE]
       IN update_fft_with_auto_scale(s2)

\* the home button of the FFT toolbar
custom_fft_home_function(s) ==
  IF s.iq_data = NoData THEN s
  ELSE LET s1 == SetChecked(reset_zoom_state(s), FALSE)
           s2 == IF Stopped(s1) THEN s1 ELSE [s1 EXCEPT !.plot_initialized = FALSE]
       IN update_fft_with_auto_scale(s2)

----------------------------------------------------------------------------
(* Inputs *)

\* a click far to the right of every buffer
FarClick == 200

\* int(event.xdata) of the mouse events: left of the origin, inside the
\* buffer, right of its end
Clicks == {-1, ClickAt, FarClick}
\* left-button events inside the waveform axes, one outside them, one with
\* the right button
MouseEvents ==
  {[inaxes |-> TRUE, button |-> 1, xdata |-> x] : x \in Clicks}
    \cup {[inaxes |-> FALSE, button |-> 1, xdata |-> ClickAt],
          [inaxes |-> TRUE, button |-> 3, xdata |-> ClickAt]}
SizeChoices == {64, DefaultFftSize}
WindowChoices == {"Rectangle", "Hamming"}
RateChoices == {1000, DefaultSamplingRate}

\* how a Qt slot ended
SlotEvent(r, name) == IF r.dead THEN "abort" ELSE name

----------------------------------------------------------------------------
(* Actions: one per handler *)

OpenFile(f) ==
  /\ ~dead
  /\ LET r == open_file(Cur, f)
     IN Commit(Caught(r),
               IF r.dead THEN "abort"
               ELSE IF f.kind = "cancel" THEN "load_cancel"
               ELSE IF r.exc \/ f.kind = "reject" THEN "load_failed"
               ELSE "load_ok")

MousePress(inaxes, button, xdata) ==
  /\ ~dead
  /\ LET r == on_mouse_press(Cur, inaxes, button, xdata)
     IN Commit(Caught(r),
               IF r.dead THEN "abort"
               ELSE IF inaxes /\ iq_data # NoData /\ toolbar_mode = "" /\ button = 1
                 THEN (IF r.exc THEN "press_raised" ELSE "press")
               ELSE "press_ignored")

MouseMove(inaxes, xdata) ==
  /\ ~dead
  /\ LET r == on_mouse_move(Cur, inaxes, xdata)
     IN Commit(Caught(r),
               IF r.dead THEN "abort"
               ELSE IF dragging /\ inaxes /\ iq_data # NoData /\ toolbar_mode = ""
                 THEN (IF r.exc THEN "move_raised" ELSE "move")
               ELSE "move_ignored")

MouseRelease ==
  /\ ~dead
  /\ LET r == on_mouse_release(Cur)
     IN Commit(Caught(r),
               IF r.dead THEN "abort"
               ELSE IF dragging /\ iq_data # NoData /\ toolbar_mode = ""
                 THEN (IF r.exc THEN "release_raised" ELSE "release")
               ELSE "release_ignored")

\* the user moves the position slider to v
SliderMove(v) ==
  /\ ~dead
  /\ slider_enabled
  /\ v \in 0..slider_maximum
  /\ v # slider_value
  /\ LET r == SliderSetValue(Cur, v, TRUE)
     IN Commit(r, SlotEvent(r, "slider"))

SetFftSize(n) ==
  /\ ~dead
  /\ n # fft_size_combo
  /\ LET r == Slot(update_fft_size(Cur, n))
     IN Commit(r, SlotEvent(r, "fft_size"))

SetWindow(w) ==
  /\ ~dead
  /\ w # window_combo
  /\ LET r == Slot(invalidate_fft_cache(Cur, w))
     IN Commit(r, SlotEvent(r, "window"))

\* compute_fft_data called on the analyzer object by other code than its
\* own handlers; an exception it raises goes to that caller
ComputeCall(start_sample, n, window_type, rate) ==
  /\ ~dead
  /\ \E r \in {compute_fft_data(Cur, start_sample, n, window_type, rate)} :
       /\ CommitFields(Caught(r), IF r.exc THEN "compute_raised" ELSE "compute")
       /\ IF r.exc THEN UNCHANGED <<first_call, last_call, taper, freq_bins>>
          ELSE LET c == [buf |-> iq_data,
                         key |-> <<start_sample, n, window_type, rate>>,
                         val |-> r.ret]
               IN  /\ last_call' = c
                   /\ taper' = IF CacheHas(fft_cache, c.key) THEN NoTaper
                               ELSE WindowValues(window_type, SegmentLen(iq_data, start_sample, n))
                   /\ freq_bins' = IF CacheHas(fft_cache, c.key) THEN <<>>
                                   ELSE fftshift(fftfreq(n))
                   /\ first_call' = IF first_call.buf = iq_data THEN first_call
                                     ELSE c

SetSamplingRate(r0) ==
  /\ ~dead
  /\ r0 # sampling_rate_input
  /\ LET r == Slot(update_sampling_rate(Cur, r0))
     IN Commit(r, SlotEvent(r, "rate"))

\* the user clicks the "Fix Y-Axis Scale" checkbox
ToggleLock ==
  /\ ~dead
  /\ LET r == SetChecked(Cur, ~fix_y_axis_checkbox)
     IN Commit(r, SlotEvent(r, IF fix_y_axis_checkbox THEN "unlock" ELSE "lock"))

FftHome ==
  /\ ~dead
  /\ LET r == Slot(custom_fft_home_function(Cur))
     IN Commit(r, SlotEvent(r, "home"))

\* the user switches the waveform toolbar's zoom/pan tool on or off
ToolbarMode ==
  /\ ~dead
  /\ Commit([Cur EXCEPT !.toolbar_mode = IF toolbar_mode = "" THEN "zoom rect" ELSE ""],
            "mode")

\* TickMs milliseconds pass while the timer is running
Tick ==
  /\ ~dead
  /\ timer_active
  /\ timer_remaining > 0
  /\ timer_remaining' = Max(0, timer_remaining - TickMs)
  /\ since_sched' = Min(fft_update_delay, since_sched + TickMs)
  /\ UNCHANGED <<iq_data, sampling_rate, fft_start_sample, fft_size, dragging,
                 pending_fft_update, fft_cache, timer_active,
                 slider_maximum, slider_value, slider_enabled, fix_y_axis_checkbox,
                 window_combo, fft_size_combo, sampling_rate_input, toolbar_mode,
                 fixed_ylim, plot_initialized, fft_line, ylim, displayed, xlabel,
                 dead, last_event, recomputes, ins_log, sched_calls,
                 timer_runs, fired_after, cancelled, host_idle, first_call,
                 last_call, taper, freq_bins>>

\* the event loop has a timeout of fft_update_timer to deliver
TimeoutEnabled == ~dead /\ timer_active /\ timer_remaining = 0

\* the single-shot timer times out: it becomes inactive and its slot runs
Timeout ==
  /\ TimeoutEnabled
  /\ \E r \in {Slot(delayed_fft_update(TimerStop(Cur)))} :
       Commit(r, SlotEvent(r, "timeout"))

----------------------------------------------------------------------------
(* Specification Spec: loading, selection and FFT size *)

SelFiles == {LongFile, MidFile, BadFile, UnsizedFile, RejectFile, IoErrorFile}

Next ==
  \/ \E f \in SelFiles : OpenFile(f)
  \/ \E e \in MouseEvents : MousePress(e.inaxes, e.button, e.xdata)
  \/ \E e \in MouseEvents : MouseMove(e.inaxes, e.xdata)
  \/ MouseRelease
  \/ \E v \in Clicks : SliderMove(Max(0, Min(v, slider_maximum)))
  \/ \E n \in SizeChoices : SetFftSize(n)
  \/ Tick
  \/ Timeout

Spec == Init /\ [][Next]_vars

----------------------------------------------------------------------------
(* Specification SpecCache: a long walk of the selection over one buffer,   *)
(* so that the cache fills and evicts.  A press moves the selection one     *)
(* sample on, back to sample 0, or just past the newest cached start; the   *)
(* release that follows it recomputes at once.  The walk ends when the      *)
(* insertion history is full.                                               *)

LastLogged == IF ins_log = <<>> THEN 0 ELSE ins_log[Len(ins_log)][1]

WalkClicks ==
  IF dragging \/ Len(ins_log) >= MaxLog THEN {}
  ELSE {x \in {0, fft_start_sample + 1, LastLogged + 1} : x <= MaxWalk}

NextCache ==
  \/ OpenFile(LongFile)
  \/ \E n \in SizeChoices : SetFftSize(n)
  \/ \E x \in WalkClicks : MousePress(TRUE, 1, x)
  \/ MouseRelease

SpecCache == Init /\ [][NextCache]_vars

----------------------------------------------------------------------------
(* Claims *)

----------------------------------------------------------------------------
(* Specification SpecLive: the event loop with a fairly scheduled timer *)

\* the user stops interacting: from here on the event loop delivers timer
\* events only
Quiesce ==
  /\ ~dead
  /\ ~host_idle
  /\ host_idle' = TRUE
  /\ last_event' = "idle"
  /\ UNCHANGED <<iq_data, sampling_rate, fft_start_sample, fft_size, dragging,
                 pending_fft_update, fft_cache, timer_active, timer_remaining,
                 slider_maximum, slider_value, slider_enabled, fix_y_axis_checkbox,
                 window_combo, fft_size_combo, sampling_rate_input, toolbar_mode,
                 fixed_ylim, plot_initialized, fft_line, ylim, displayed, xlabel,
                 dead, recomputes, ins_log, since_sched, sched_calls,
                 timer_runs, fired_after, cancelled, first_call, last_call,
                 taper, freq_bins>>

LiveFiles == {LongFile}
\* clicks inside the buffer and right of its end
LiveClicks == {ClickAt, FarClick}

NextLive ==
  \/ ~host_idle /\ \E f \in LiveFiles : OpenFile(f)
  \/ ~host_idle /\ \E x \in LiveClicks : MousePress(TRUE, 1, x)
  \/ ~host_idle /\ \E x \in LiveClicks : MouseMove(TRUE, x)
  \/ ~host_idle /\ MouseRelease
  \/ ~host_idle /\ SliderMove(0)
  \/ ~host_idle /\ \E n \in SizeChoices : SetFftSize(n)
  \/ ~host_idle /\ \E w \in WindowChoices : SetWindow(w)
  \/ ~host_idle /\ \E r \in RateChoices : SetSamplingRate(r)
  \/ Quiesce
  \/ Tick
  \/ Timeout

\* Qt's event loop lets time pass and delivers the timeout of an active
\* timer: weak fairness of Tick and of Timeout. WF_vars(Timeout) is written
\* out, with TimeoutEnabled for ENABLED <<Timeout>>_vars (a Timeout step
\* always changes timer_active, so the two are equal in every state).
SpecLive ==
  /\ Init /\ [][NextLive]_vars
  /\ WF_vars(Tick)
  /\ ([]<>(~TimeoutEnabled) \/ []<><<Timeout>>_vars)

----------------------------------------------------------------------------
(* Specification SpecScale: parameter changes and the Y-axis lock *)

ScaleFiles == {LongFile}
\* clicks on neighbouring samples, whose spectra peak within and beyond the
\* hysteresis of each other
ScaleClicks == {ClickAt, ClickAt + 1}

NextScale ==
  \/ \E f \in ScaleFiles : OpenFile(f)
  \/ \E x \in ScaleClicks : MousePress(TRUE, 1, x)
  \/ SliderMove(0)
  \/ \E n \in SizeChoices : SetFftSize(n)
  \/ \E w \in WindowChoices : SetWindow(w)
  \/ \E r \in RateChoices : SetSamplingRate(r)
  \/ ToggleLock
  \/ FftHome
  \/ Tick
  \/ Timeout

SpecScale == Init /\ [][NextScale]_vars

----------------------------------------------------------------------------
(* Specification SpecEdge: buffers without samples and shorter than the FFT *)

EdgeFiles == {EmptyFile, ShortFile}

NextEdge ==
  \/ \E f \in EdgeFiles : OpenFile(f)
  \/ \E x \in Clicks : MousePress(TRUE, 1, x)
  \/ MouseRelease
  \/ \E n \in SizeChoices : SetFftSize(n)
  \/ \E w \in WindowChoices : SetWindow(w)
  \/ Tick
  \/ Timeout

SpecEdge == Init /\ [][NextEdge]_vars

----------------------------------------------------------------------------
(* Specification SpecCompute: compute_fft_data applied to arguments of its  *)
(* own, among them a window kind and an FFT size the combo boxes do not     *)
(* offer and sampling rates on both sides of the unit thresholds            *)
(* (1, 2, 3 kHz and 2000, 2001 kHz: bins up to 500, 1000, 1500 Hz and       *)
(* 1 MHz, 1.0005 MHz).                                                      *)

CallArgs ==
  {<<0, n, w, DefaultSamplingRate>> : n \in {64, 100}, w \in {"Hamming", "Kaiser"}}
    \cup {<<0, 64, "Hamming", r>> : r \in {1, 2, 3, 2000, 2001}}
    \cup {<<0, DefaultFftSize, "Hamming", DefaultSamplingRate>>}
    \cup {<<x, 64, "Hamming", DefaultSamplingRate>> : x \in {66, 100, 130}}

NextCompute ==
  \/ OpenFile(LongFile)
  \/ \E a \in CallArgs :
       Len(fft_cache) < CallDepth /\ ComputeCall(a[1], a[2], a[3], a[4])
  \/ \E w \in WindowChoices : SetWindow(w)

SpecCompute == Init /\ [][NextCompute]_vars

----------------------------------------------------------------------------
(* Specification SpecRepeat: compute_fft_data called again with arguments   *)
(* it was called with before: from the cache, after the cache was cleared   *)
(* by a window change, and after a walk over new start samples has evicted  *)
(* the entry.                                                               *)

RepeatArgs ==
  {<<0, DefaultFftSize, "Hamming", DefaultSamplingRate>>,
   <<Len(ins_log), DefaultFftSize, "Hamming", DefaultSamplingRate>>}

NextRepeat ==
  \/ OpenFile(LongFile)
  \/ \E a \in RepeatArgs : ComputeCall(a[1], a[2], a[3], a[4])
  \/ \E w \in WindowChoices : SetWindow(w)

SpecRepeat == Init /\ [][NextRepeat]_vars

----------------------------------------------------------------------------
(* Specification SpecWindow: compute_fft_data applied to segments of one to *)
(* three samples under every window kind.                                   *)

WindowStarts == {0, 1, 2}

NextWindow ==
  \/ OpenFile(TinyFile)
  \/ \E x \in WindowStarts, w \in WINDOW_TYPES :
       Len(fft_cache) < CallDepth /\ ComputeCall(x, 64, w, DefaultSamplingRate)
  \/ \E w \in WindowChoices : SetWindow(w)

SpecWindow == Init /\ [][NextWindow]_vars

----------------------------------------------------------------------------
(* Properties *)

\* C1: selection invariant. After every handler, in any order:
\* 0 <= fft_start_sample <= max(0, len(iq_data) - fft_size) whenever iq_data
\* has a length, and fft_start_sample = 0 while nothing is loaded; so the
\* start is 0 whenever the buffer is shorter than fft_size.
C1_SelectionInvariant ==
  /\ HasLen(iq_data) =>
       /\ 0 <= fft_start_sample
       /\ fft_start_sample <= Max(0, iq_data.len - fft_size)
       /\ (iq_data.len < fft_size => fft_start_sample = 0)
  /\ iq_data = NoData => fft_start_sample = 0

\* a far-right click was clamped to the last start at which the window fits
C1_Witness ==
  /\ last_event = "press"
  /\ IsBuffer(iq_data)
  /\ fft_start_sample > 0
  /\ fft_start_sample = iq_data.len - fft_size

\* C2: after a successful open_file the selection start is 0.
C2_LoadResetsStart ==
  last_event = "load_ok" => fft_start_sample = 0


\* C3: the cache never holds more than 50 entries.
C3_CacheAtMost50 == Len(fft_cache) <= CacheLimit

\* the keys inserted since the last clear are pairwise distinct
DistinctLog == \A i, j \in 1..Len(ins_log) : i # j => ins_log[i] # ins_log[j]

\* C4: once 51 spectra with pairwise distinct keys have been stored with no
\* clear in between, the first-inserted key is gone and the 2nd to 51st
\* are all still present.
C4_FirstOf51Gone ==
  (Len(ins_log) = CacheLimit + 1 /\ DistinctLog) =>
     /\ ~CacheHas(fft_cache, ins_log[1])
     /\ \A i \in 2..(CacheLimit + 1) : CacheHas(fft_cache, ins_log[i])

\* the keys of the cache are the most recently inserted keys, oldest first
CacheIsLogSuffix ==
  /\ Len(fft_cache) <= Len(ins_log)
  /\ CacheKeys(fft_cache) =
       SubSeq(ins_log, Len(ins_log) - Len(fft_cache) + 1, Len(ins_log))

\* a step that inserts a key appends it and removes nothing, or removes
\* exactly the entry at the head; a step that inserts nothing (a hit)
\* leaves the cache and its order as they were
FifoStep ==
  /\ Len(ins_log') = Len(ins_log) + 1 =>
       \/ CacheKeys(fft_cache') = Append(CacheKeys(fft_cache), ins_log'[Len(ins_log')])
       \/ CacheKeys(fft_cache') =
            Append(Tail(CacheKeys(fft_cache)), ins_log'[Len(ins_log')])
  /\ (ins_log' = ins_log /\ Len(ins_log) < MaxLog) => fft_cache' = fft_cache

\* C5: eviction is strict FIFO. While the insertion history is recorded, the
\* cache holds the most recently inserted keys in insertion order (so the
\* entry evicted is always the earliest inserted one), an insert evicts at
\* most one entry, and a hit changes neither the contents nor the order.
C5_StrictFifo ==
  /\ [](Len(ins_log) < MaxLog => CacheIsLogSuffix)
  /\ [][FifoStep]_vars

\* an entry has been evicted, and the last recomputation was a hit on a key
\* other than the newest one
C5_Witness ==
  /\ Len(ins_log) > Len(fft_cache)
  /\ Len(ins_log) < MaxLog
  /\ last_event = "release"
  /\ recomputes = 1
  /\ displayed.start # LastLogged


\* C6: the result compute_fft_data returns for a key, from a hit or from a
\* fresh computation, equals the result an uncached computation produces from
\* the buffer currently held: whenever the last handler delivered a result to
\* the FFT canvas, that result is the spectrum of the current iq_data for its
\* key, and never one computed from a previous buffer.
C6_ExactReuse ==
  recomputes >= 1 =>
    displayed = ComputeSpectrum(iq_data, displayed.start, displayed.size,
                                displayed.win, displayed.rate)

\* the fields a failed load has to leave alone
LoadKept ==
  /\ iq_data' = iq_data
  /\ fft_start_sample' = fft_start_sample
  /\ fft_size' = fft_size
  /\ fft_cache' = fft_cache
  /\ fix_y_axis_checkbox' = fix_y_axis_checkbox

\* C7: a load that fails (a rejected layout, or an exception raised anywhere
\* inside the try block of open_file) leaves the sample buffer, the selection
\* start, the FFT size, the cache contents and the Y-axis lock checkbox as
\* they were before the load was attempted.
C7_FailedLoadKeepsState ==
  [][((\E f \in SelFiles : OpenFile(f)) /\ last_event' = "load_failed")
       => LoadKept]_vars


\* C8: schedule_fft_update calls that each come before the 16 ms delay of
\* the previous one has elapsed, with no cancel in between, cause exactly one
\* timer-driven recomputation, and it happens only once the full delay has
\* passed since the last call: no call is followed by more than one
\* timer-driven recomputation, a timer-driven recomputation comes
\* fft_update_delay after the last call, and once the calls stop the armed
\* timer does lead to that recomputation.
C8_DebounceCoalescing ==
  /\ [](timer_runs <= 1)
  /\ [](timer_runs = 1 => fired_after = fft_update_delay)
  /\ [](last_event = "timeout" => (timer_runs = 1 /\ recomputes = 1))
  /\ ((host_idle /\ timer_active) ~> (timer_runs = 1 /\ ~timer_active))

\* C8 witness: two or more calls were coalesced into one timer-driven recomputation
C8_Witness ==
  /\ last_event = "timeout" /\ sched_calls = 2 /\ timer_runs = 1
  /\ recomputes = 1 /\ fired_after = fft_update_delay /\ ~timer_active

\* the FFT canvas shows the spectrum of the current buffer and parameters
Consistent ==
  displayed = ComputeSpectrum(iq_data, fft_start_sample, fft_size,
                              window_combo, sampling_rate_input)

\* C9: releasing a drag with a buffer loaded stops the debounce timer and
\* recomputes exactly once before it returns, leaving the canvas with the
\* spectrum of the current selection start; an arm cancelled by the release
\* leads to no timer-driven recomputation.
C9_ReleaseCancelsAndRuns ==
  /\ (last_event = "release" /\ IsBuffer(iq_data))
       => (~timer_active /\ recomputes = 1 /\ Consistent)
  /\ cancelled => (~timer_active /\ timer_runs = 0)

\* C9 witness: a release that cancelled a pending update and recomputed
C9_Witness ==
  /\ last_event = "release" /\ cancelled /\ IsBuffer(iq_data)
  /\ recomputes = 1 /\ fft_start_sample > 0 /\ Consistent

\* C10: with a buffer loaded, once no further user events arrive and the
\* timer is scheduled fairly, the displayed spectrum eventually becomes, and
\* then remains, the spectrum for the final start, FFT size, window and
\* sampling rate.
C10_EventualConsistency ==
  (host_idle /\ IsBuffer(iq_data)) ~> [](Consistent)


\* C10 witness: after the user stopped, the timer ran and left the canvas
\* showing the spectrum of a selection away from the start of the buffer
C10_Witness ==
  /\ host_idle /\ last_event = "timeout" /\ recomputes = 1
  /\ IsBuffer(iq_data) /\ fft_start_sample > 0 /\ Consistent


\* the cache key of the current selection and parameters
CurrentKey == <<fft_start_sample, fft_size, window_combo, sampling_rate_input>>

\* C11: with a buffer loaded, each parameter setter (invalidate_fft_cache,
\* update_fft_size, update_sampling_rate) removes every cache entry that
\* existed before the call and recomputes with the new value before it
\* returns: afterwards the canvas shows the spectrum for the new parameters
\* and the cache holds that one entry only.
C11_SettersClearAndRecompute ==
  (last_event \in {"window", "fft_size", "rate"} /\ IsBuffer(iq_data)) =>
     /\ recomputes >= 1
     /\ Consistent
     /\ CacheKeys(fft_cache) = <<CurrentKey>>
     /\ ins_log = <<CurrentKey>>

\* C11 witness: a window change at a selection away from the start
C11_Witness ==
  /\ last_event = "window" /\ IsBuffer(iq_data) /\ fft_start_sample > 0
  /\ recomputes = 1 /\ CacheKeys(fft_cache) = <<CurrentKey>>


\* the Y axis is locked: the checkbox is checked and a range is stored
Locked == fix_y_axis_checkbox /\ fixed_ylim # NoLim

\* a step from a locked state, other than the handlers in exempt, leaves
\* the axis locked and the displayed range equal to the stored one
LockedStep(exempt) ==
  (Locked /\ last_event' \notin exempt) =>
     (fix_y_axis_checkbox' /\ fixed_ylim' = fixed_ylim /\ ylim' = fixed_ylim)

\* C12 as stated: once the Y axis is locked with range [r_lo, r_hi], every
\* later operation other than an explicit unlock (the checkbox, or the home
\* button of the FFT toolbar) or a buffer load leaves the axis locked and the
\* displayed range equal to [r_lo, r_hi]; a sampling-rate change is among the
\* operations that have to keep it.
C12_LockedRangeKept ==
  [][LockedStep({"unlock", "home", "load_ok", "load_failed"})]_vars

\* C12 amended: a sampling-rate change also unlocks (update_sampling_rate
\* resets the zoom state and unchecks the box); a selection drag, a slider
\* move, a window change, an FFT-size change and a timer-driven recomputation
\* leave the axis locked and the displayed range equal to [r_lo, r_hi].
C12_LockedRangeKeptButRate ==
  [][LockedStep({"unlock", "home", "load_ok", "load_failed", "rate"})]_vars

\* C12 witness: the axis is locked and a recomputation at another selection,
\* whose automatic range would differ by more than the hysteresis, was shown
\* within the stored range
C12_Witness ==
  /\ Locked /\ recomputes = 1 /\ last_event \in {"release", "timeout", "fft_size", "window"}
  /\ ylim = fixed_ylim /\ NeedsRescale(ylim, AutoLim(displayed.peak))


\* the requested sample index x clamped into [0, max(0, len - fft_size)]
Requested(x) == Clip(x, 0, Max(0, iq_data.len - fft_size))

\* the debounce timer is armed and nothing was recomputed by the handler
ArmedOnly ==
  timer_active' /\ pending_fft_update' /\ recomputes' = 0 /\ displayed' = displayed

\* the debounce timer was started afresh by the handler
ArmedAfresh == ArmedOnly /\ timer_remaining' = fft_update_delay

\* a handled left-button press at x
PressAt(x) == MousePress(TRUE, 1, x) /\ last_event' = "press" /\ IsBuffer(iq_data)

\* a handled mouse move to x while dragging
MoveTo(x) == MouseMove(TRUE, x) /\ last_event' = "move" /\ IsBuffer(iq_data)

\* C13 as stated: every drag-to-position event on a loaded buffer (a press,
\* or a move while dragging, inside the waveform axes with no toolbar mode
\* active) sets the start to the requested index clamped into
\* [0, max(0, len - fft_size)] and arms the debounce timer, without a
\* synchronous recomputation.
C13_DragSetsAndArms ==
  [][\A x \in Clicks :
       /\ PressAt(x) => (fft_start_sample' = Requested(x) /\ ArmedOnly)
       /\ MoveTo(x) => (fft_start_sample' = Requested(x) /\ ArmedOnly)]_vars

\* C13 amended: a press always sets the clamped start and starts the timer
\* afresh; a move does so when the clamped index differs from the current
\* start, and otherwise changes neither the start nor the timer; neither
\* recomputes synchronously.
C13_DragSetsAndArmsOnChange ==
  [][\A x \in Clicks :
       /\ PressAt(x) => (fft_start_sample' = Requested(x) /\ ArmedAfresh)
       /\ MoveTo(x) =>
            /\ fft_start_sample' = Requested(x)
            /\ recomputes' = 0 /\ displayed' = displayed
            /\ IF Requested(x) # fft_start_sample THEN ArmedAfresh
               ELSE UNCHANGED <<timer_active, timer_remaining, pending_fft_update>>]_vars

\* C13 witness: a move dragged the selection to the last start at which the
\* window fits and armed the timer; the canvas still shows the old selection
C13_Witness ==
  /\ last_event = "move" /\ IsBuffer(iq_data) /\ dragging
  /\ fft_start_sample = iq_data.len - fft_size /\ fft_start_sample > 0
  /\ timer_active /\ timer_remaining = fft_update_delay
  /\ recomputes = 0 /\ displayed.start # fft_start_sample


\* C14: a successful load leaves the Y-axis scaling in Auto mode: after
\* open_file the lock checkbox is unchecked, no fixed range is stored and
\* the displayed range is the automatic one of the displayed spectrum,
\* whatever the lock state was before.
C14_LoadResetsScaling ==
  last_event = "load_ok" =>
     /\ ~fix_y_axis_checkbox
     /\ fixed_ylim = NoLim
     /\ ylim = AutoLim(displayed.peak)

\* C14 witness: the load found the checkbox checked (unchecking it ran
\* toggle_y_axis_lock, which recomputed once more)
C14_Witness ==
  last_event = "load_ok" /\ recomputes = 2 /\ ~fix_y_axis_checkbox


\* C15: spectrum computation on an empty buffer is rejected: no spectrum
\* computed from zero samples (a result of padding only) is ever stored in
\* the cache or handed to the canvas.
C15_EmptyInputRejected ==
  /\ \A i \in 1..Len(fft_cache) : fft_cache[i].val.actual > 0
  /\ displayed # NoResult => displayed.actual > 0

ExpectedDivisor(rate) ==
  IF 500 * rate > 1000000 THEN "1e6"
  ELSE IF 500 * rate > 1000 THEN "1e3"
  ELSE "1"

\* C17: the axis compute_fft_data returns is the raw axis divided by 1e6 when
\* the largest |frequency| is strictly above 1e6 Hz, by 1e3 when it is at
\* most 1e6 and strictly above 1e3 Hz, and undivided otherwise; 240 MHz with
\* 1024 points comes in MHz, 1000 Hz with 64 points in Hz.
C17_UnitScaling ==
  /\ last_call # NoCall => last_call.val.unit = ExpectedDivisor(last_call.key[4])
  /\ \A i \in 1..Len(fft_cache) :
       fft_cache[i].val.unit = ExpectedDivisor(fft_cache[i].key[4])
  /\ last_call.key = <<0, DefaultFftSize, "Hamming", DefaultSamplingRate>>
       => last_call.val.unit = "1e6"
  /\ last_call.key = <<0, 64, "Hamming", 1>> => last_call.val.unit = "1"

\* the call at the upper end of the kHz range (bins up to exactly 1e6 Hz)
\* after the call at the upper end of the Hz range (exactly 1e3 Hz)
C17_Witness ==
  /\ last_event = "compute"
  /\ last_call.key = <<0, 64, "Hamming", 2000>> /\ last_call.val.unit = "1e3"
  /\ first_call.key = <<0, 64, "Hamming", 2>> /\ first_call.val.unit = "1"
  /\ first_call.buf = iq_data

\* the unit that goes with a divisor
UnitName(unit) ==
  CASE unit = "1e6" -> "MHz"
    [] unit = "1e3" -> "kHz"
    [] OTHER -> "Hz"

\* C18: the x label of the FFT plot names the unit of the axis it shows: MHz
\* exactly when compute_fft_data divided by 1e6, kHz exactly when it divided
\* by 1e3, Hz exactly when it did not divide; 240 MHz with 1024 points is
\* labelled MHz.
C18_LabelMatchesDivisor ==
  (plot_initialized /\ displayed # NoResult) =>
     /\ xlabel = UnitName(displayed.unit)
     /\ (displayed.rate = DefaultSamplingRate /\ displayed.size = DefaultFftSize)
          => xlabel = "MHz"

\* an update of the plot that was already initialised and is unlocked
\* afterwards: exactly one spectrum delivered by a handler that neither loads
\* nor re-initialises the plot
FastUpdateStep ==
  /\ plot_initialized /\ fft_line
  /\ plot_initialized' /\ ~fix_y_axis_checkbox'
  /\ recomputes' = 1
  /\ last_event' \in {"release", "timeout", "window", "fft_size", "unlock"}

\* C19: auto-scaling hysteresis. An update with maximum magnitude m of the
\* unlocked, initialised plot sets the range to [m-80, m+10] if and only if
\* the low limit differs from m-80 by more than 5 or the high limit differs
\* from m+10 by more than 5; otherwise the range stays as it was.
C19_Hysteresis ==
  [][FastUpdateStep =>
       LET m == displayed'.peak
       IN  IF Abs(ylim[1] - (m - 80)) > 5 \/ Abs(ylim[2] - (m + 10)) > 5
           THEN ylim' = <<m - 80, m + 10>>
           ELSE ylim' = ylim]_vars

\* the range set for a maximum of 14 dB was kept for a maximum 5 dB higher
C19_Witness ==
  /\ last_event \in {"release", "timeout"} /\ recomputes = 1
  /\ plot_initialized /\ ~fix_y_axis_checkbox /\ fixed_ylim = NoLim
  /\ displayed.peak = 19 /\ ylim = <<14 - 80, 14 + 10>>

\* C20: determinism of compute_fft_data. A call with the buffer, start, size,
\* window kind and sampling rate of an earlier call returns the result the
\* earlier call returned, whether it is served from the cache or computed
\* again after the cache was cleared or the entry evicted.
C20_Deterministic ==
  (last_call.buf = first_call.buf /\ last_call.key = first_call.key) =>
     last_call.val = first_call.val

\* the first call's arguments, computed again after the entry was evicted:
\* the key was inserted twice since the cache was last cleared
C20_Witness ==
  /\ last_event = "compute"
  /\ last_call.buf = iq_data /\ first_call.buf = iq_data
  /\ last_call.key = first_call.key /\ last_call.val = first_call.val
  /\ Len(ins_log) > CacheLimit
  /\ ins_log[Len(ins_log)] = last_call.key
  /\ \E i \in 1..(Len(ins_log) - 1) : ins_log[i] = last_call.key

\* the latest direct call computed a transform of a segment with samples
WindowApplies ==
  /\ last_event = "compute" /\ taper # NoTaper
  /\ last_call.val.actual > 0

\* C21: for every supported window kind and every segment of n > 0 samples
\* the segment is multiplied by exactly n coefficients, each in [0,1], and
\* for Rectangle every coefficient is 1.
C21_Coefficients ==
  (WindowApplies /\ last_call.key[3] \in WINDOW_TYPES) =>
     /\ Len(taper.vals) = last_call.val.actual
     /\ \A i \in 1..Len(taper.vals) :
          FLeq(FZero, taper.vals[i]) /\ FLeq(taper.vals[i], FOne)
     /\ last_call.key[3] = "Rectangle" =>
          \A i \in 1..Len(taper.vals) : taper.vals[i] = FOne

\* C22: segment extraction and padding. For a start inside the buffer the
\* analysed segment is the samples from start up to min(len, start + size),
\* actualSampleCount is their number, a segment shorter than the FFT size is
\* followed by zeros up to exactly the FFT size and none of its samples is
\* dropped, and the frequency axis and the magnitude series both have
\* exactly size elements.
C22_SegmentAndPadding ==
  \A i \in 1..Len(fft_cache) :
    LET k == fft_cache[i].key
        v == fft_cache[i].val
        bufferLength == iq_data.len
    IN  (IsBuffer(iq_data) /\ v.src = iq_data.id /\ k[1] \in 0..bufferLength) =>
          /\ v.taken = Min(bufferLength, k[1] + k[2]) - k[1]
          /\ v.actual = v.taken
          /\ v.taken + v.zeros = k[2]
          /\ v.zeros >= 0
          /\ v.bins = k[2] /\ v.freqs = k[2]

\* a padded segment that starts inside the buffer, next to a full one
C22_Witness ==
  /\ last_event = "compute"
  /\ last_call.key = <<100, 64, "Hamming", DefaultSamplingRate>>
  /\ last_call.val.taken = 30 /\ last_call.val.zeros = 34
  /\ first_call.key = <<66, 64, "Hamming", DefaultSamplingRate>>
  /\ first_call.val.taken = 64 /\ first_call.val.zeros = 0
  /\ CacheHas(fft_cache, last_call.key)

\* the entries of cache that are not stored under key k, in their order
Others(cache, k) == SelectSeq(cache, LAMBDA e : e.key # k)

IsSuffix(a, b) ==
  Len(a) <= Len(b) /\ a = SubSeq(b, Len(b) - Len(a) + 1, Len(b))

\* C23: the cache is consulted before any FFT work. A call whose key is in
\* the cache returns the stored result, computes no transform and leaves the
\* cache and its order as they were; a call whose key is not in the cache
\* computes one transform and adds exactly one entry, for that key.
C23_LookupFirst ==
  [][\A a \in RepeatArgs :
       (ComputeCall(a[1], a[2], a[3], a[4]) /\ last_event' = "compute") =>
          IF CacheHas(fft_cache, a)
          THEN /\ last_call'.val = CacheGet(fft_cache, a)
               /\ fft_cache' = fft_cache
               /\ ins_log' = ins_log
          ELSE /\ fft_cache'[Len(fft_cache')] = [key |-> a, val |-> last_call'.val]
               /\ Others(fft_cache', a) = SubSeq(fft_cache', 1, Len(fft_cache') - 1)
               /\ IsSuffix(Others(fft_cache', a), fft_cache)
               /\ ins_log' = LogInsert(ins_log, a)]_vars

\* a call served from a cache of several entries whose newest entry is
\* another key
C23_Witness ==
  /\ last_event = "compute"
  /\ CacheHas(fft_cache, last_call.key)
  /\ Len(fft_cache) > 1
  /\ fft_cache[Len(fft_cache)].key # last_call.key
  /\ last_call.val = CacheGet(fft_cache, last_call.key)

\* C24: frequency-bin formula. For an even FFT size n the k-th element
\* (k = 0..n-1) of the shifted axis is (k - n/2) times fs/n: the axis is
\* strictly increasing, starts at -fs/2 (bin -n/2) and has frequency zero at
\* index n/2.
C24_BinFormula ==
  (freq_bins # <<>> /\ Len(freq_bins) % 2 = 0) =>
     LET n == Len(freq_bins)
     IN  /\ n = last_call.key[2]
         /\ \A k \in 0..(n - 1) : 2 * freq_bins[k + 1] = 2 * k - n
         /\ \A k \in 1..(n - 1) : freq_bins[k] < freq_bins[k + 1]
         /\ 2 * freq_bins[1] = -n
         /\ freq_bins[(n \div 2) + 1] = 0

\* the axis of the default FFT size, built by a direct call after a window
\* change had cleared the cache
C24_Witness ==
  /\ last_event = "compute"
  /\ last_call.key = <<0, DefaultFftSize, "Hamming", DefaultSamplingRate>>
  /\ Len(freq_bins) = DefaultFftSize
  /\ freq_bins[1] = -512 /\ freq_bins[513] = 0 /\ freq_bins[1024] = 511

\* C25: locking stores the vertical range on display at that moment; the
\* stored range is left alone by every later recomputation for as long as the
\* axis stays locked; unlocking discards it and, with a buffer loaded, makes
\* exactly one recomputation at once, shown under automatic scaling.
C25_LockCapturesUnlockRecomputes ==
  [][/\ last_event' = "lock" =>
          fixed_ylim' = ylim /\ ylim' = ylim /\ recomputes' = 0
     /\ (fix_y_axis_checkbox /\ fix_y_axis_checkbox' /\ recomputes' > 0) =>
          fixed_ylim' = fixed_ylim
     /\ last_event' = "unlock" =>
          /\ fixed_ylim' = NoLim
          /\ recomputes' = IF iq_data = NoData THEN 0 ELSE 1
          /\ IsBuffer(iq_data) =>
               /\ displayed' = ComputeSpectrum(iq_data, fft_start_sample, fft_size,
                                               window_combo, sampling_rate_input)
               /\ ylim' = IF NeedsRescale(ylim, AutoLim(displayed'.peak))
                          THEN AutoLim(displayed'.peak) ELSE ylim]_vars

\* the axis was locked while it showed a range kept by the hysteresis, which
\* is not the automatic range of the spectrum on display
C25_Witness ==
  /\ last_event = "lock" /\ fix_y_axis_checkbox
  /\ displayed # NoResult
  /\ fixed_ylim = ylim /\ ylim # AutoLim(displayed.peak)

\* C26: while the debounce timer is active pending_fft_update is set, so
\* every expiry of the timer makes exactly one recomputation and none is
\* dropped, however schedule calls, releases that stop the timer and
\* expiries interleave.
C26_ExpiryRecomputes ==
  /\ [](timer_active => pending_fft_update)
  /\ [][last_event' = "timeout" =>
          /\ pending_fft_update /\ ~pending_fft_update' /\ ~timer_active'
          /\ recomputes' = 1]_vars

\* an expiry that recomputed for the selection set by the drag
C26_Witness ==
  /\ last_event = "timeout" /\ recomputes = 1
  /\ dragging /\ ~timer_active /\ ~pending_fft_update
  /\ timer_runs = 1 /\ fft_start_sample > 0
  /\ displayed.start = fft_start_sample

\* C27: quiescent consistency. With a buffer loaded, between two handlers and
\* with the debounce timer not active, the spectrum last handed to the FFT
\* canvas is the one of the current buffer for the current start sample, FFT
\* size, window kind and sampling rate.
C27_QuiescentConsistency ==
  (IsBuffer(iq_data) /\ ~dead /\ ~timer_active) =>
     displayed = ComputeSpectrum(iq_data, fft_start_sample, fft_size,
                                 window_combo, sampling_rate_input)

\* the slider moved the selection back to sample 0, the timer ran out and the
\* canvas was brought up to date
C27_Witness ==
  /\ IsBuffer(iq_data) /\ ~timer_active /\ ~dragging
  /\ last_event = "timeout" /\ recomputes = 1
  /\ slider_value = fft_start_sample /\ fft_start_sample = 0
  /\ displayed.start = fft_start_sample /\ displayed.src = iq_data.id

\* C28: between two handlers every key of the cache carries the current FFT
\* size, the current window kind and the current sampling rate, so that the
\* keys differ from one another in their start sample only.
C28_CacheKeysCurrent ==
  ~dead =>
    /\ \A i \in 1..Len(fft_cache) :
         /\ fft_cache[i].key[2] = fft_size
         /\ fft_cache[i].key[3] = window_combo
         /\ fft_cache[i].key[4] = sampling_rate
    /\ \A i, j \in 1..Len(fft_cache) :
         i # j => fft_cache[i].key[1] # fft_cache[j].key[1]

\* several starts cached under a size, window and rate that are not the
\* ones the program starts with
C28_Witness ==
  /\ ~dead /\ Len(fft_cache) >= 2
  /\ fft_size = 64 /\ window_combo = "Rectangle" /\ sampling_rate = 1000
  /\ fft_cache[1].key[2] = 64 /\ fft_cache[2].key[3] = "Rectangle"
  /\ fft_cache[1].key[1] # fft_cache[2].key[1]


----------------------------------------------------------------------------
(* C29: padding happens only for a buffer shorter than the FFT size *)

\* the spectrum v of a segment of n samples from start_sample is full when
\* the loaded buffer has n samples, and otherwise holds the whole buffer
\* from sample 0 followed by zeros
FullOrWholeBuffer(start_sample, n, v) ==
  IF iq_data.len >= n
  THEN v.actual = n /\ v.taken = n /\ v.zeros = 0
  ELSE /\ start_sample = 0
       /\ v.actual = iq_data.len /\ v.taken = iq_data.len
       /\ v.zeros = n - iq_data.len

\* C29: while a buffer is loaded, every spectrum the handlers have computed
\* (the displayed one and every cached one) has actualSampleCount equal to
\* its FFT size and no zero padding when the buffer has at least that many
\* samples; a padded spectrum exists only for a buffer shorter than the FFT
\* size, and then its start is 0 and its actualSampleCount is the buffer
\* length.
C29_NoPaddingWhenBufferFits ==
  (IsBuffer(iq_data) /\ ~dead) =>
    /\ displayed # NoResult =>
         FullOrWholeBuffer(displayed.start, displayed.size, displayed)
    /\ \A i \in 1..Len(fft_cache) :
         FullOrWholeBuffer(fft_cache[i].key[1], fft_cache[i].key[2],
                           fft_cache[i].val)

\* a click right of the last sample of a buffer that holds more than one
\* segment was clamped and its full segment computed, while the cache of
\* the same buffer and size also holds a segment from another start
C29_Witness ==
  /\ IsBuffer(iq_data) /\ ~dead
  /\ iq_data.len > fft_size
  /\ last_event \in {"release", "timeout"} /\ recomputes = 1
  /\ fft_start_sample = iq_data.len - fft_size
  /\ displayed.start = fft_start_sample /\ displayed.actual = fft_size
  /\ displayed.zeros = 0
  /\ Len(fft_cache) >= 2


----------------------------------------------------------------------------
(* C30: the position slider and the selection stay in step *)

\* C30: between handlers the value of the position slider equals
\* fft_start_sample, and while a buffer is loaded the maximum of the slider
\* equals max(0, buffer length - fft_size), whatever loads, drags, slider
\* moves and FFT size changes came before.
C30_SliderInStep ==
  ~dead =>
    /\ slider_value = fft_start_sample
    /\ IsBuffer(iq_data) => slider_maximum = Max(0, iq_data.len - fft_size)

\* after a load and an FFT size change that opened the slider range, the
\* user moved the slider inside the range and the selection followed
C30_Witness ==
  /\ IsBuffer(iq_data) /\ ~dead
  /\ last_event = "slider"
  /\ fft_size < iq_data.len
  /\ slider_maximum = iq_data.len - fft_size
  /\ slider_maximum # SliderInitMax
  /\ slider_value > 0
  /\ fft_start_sample = slider_value
  /\ pending_fft_update

----------------------------------------------------------------------------
(* Specification SpecUnloaded: the analyzer before any buffer is loaded.    *)
(* Every file the user picks fails to load or is dismissed, so that no      *)
(* buffer is ever loaded; all other operations are offered.                 *)

FailFiles == {BadFile, UnsizedFile, RejectFile, IoErrorFile, CancelFile}

NextUnloaded ==
  \/ \E f \in FailFiles : OpenFile(f)
  \/ \E e \in MouseEvents : MousePress(e.inaxes, e.button, e.xdata)
  \/ \E e \in MouseEvents : MouseMove(e.inaxes, e.xdata)
  \/ MouseRelease
  \/ \E v \in Clicks : SliderMove(Max(0, Min(v, slider_maximum)))
  \/ \E n \in SizeChoices : SetFftSize(n)
  \/ \E w \in WindowChoices : SetWindow(w)
  \/ \E r \in RateChoices : SetSamplingRate(r)
  \/ ToggleLock
  \/ Tick
  \/ Timeout

SpecUnloaded == Init /\ [][NextUnloaded]_vars

----------------------------------------------------------------------------
(* C31: nothing happens before a buffer is loaded *)

\* C31: while no buffer has ever been loaded, whatever operations were
\* performed, fft_start_sample is 0, the cache is empty, the last operation
\* made no recomputation and the debounce timer is not armed.
C31_IdleBeforeLoad ==
  /\ fft_start_sample = 0
  /\ fft_cache = <<>>
  /\ recomputes = 0
  /\ ~timer_active

\* the same, for the states in which iq_data is still None
C31_IdleWhileNone == (iq_data = NoData) => C31_IdleBeforeLoad


----------------------------------------------------------------------------
(* Specification SpecMouse: mouse events inside and outside the waveform    *)
(* axes, with and without a drag, while the toolbar's zoom/pan tool is      *)
(* switched on and off                                                      *)

MouseFiles == {LongFile, UnsizedFile}

NextMouse ==
  \/ \E f \in MouseFiles : OpenFile(f)
  \/ \E e \in MouseEvents : MousePress(e.inaxes, e.button, e.xdata)
  \/ \E e \in MouseEvents : MouseMove(e.inaxes, e.xdata)
  \/ MouseRelease
  \/ ToolbarMode
  \/ \E n \in SizeChoices : SetFftSize(n)
  \/ Tick
  \/ Timeout

SpecMouse == Init /\ [][NextMouse]_vars

----------------------------------------------------------------------------
(* C32: ignored mouse events *)

\* a press outside the waveform axes or while a toolbar mode is active
IgnoredPress ==
  \E e \in MouseEvents :
    /\ ~e.inaxes \/ toolbar_mode # ""
    /\ MousePress(e.inaxes, e.button, e.xdata)

\* a move with no drag in progress, outside the axes or in a toolbar mode
IgnoredMove ==
  \E e \in MouseEvents :
    /\ ~dragging \/ ~e.inaxes \/ toolbar_mode # ""
    /\ MouseMove(e.inaxes, e.xdata)

\* a release with no drag in progress or in a toolbar mode
IgnoredRelease == (~dragging \/ toolbar_mode # "") /\ MouseRelease

\* C32: an ignored mouse event (a move with no drag in progress, a press or
\* move outside the waveform axes or while a toolbar mode is active, a
\* release with no drag in progress or with a toolbar mode active) leaves
\* fft_start_sample, the cache and the armed or idle state of the debounce
\* timer unchanged and makes no recomputation.
C32_IgnoredMouseEvents ==
  [][(IgnoredPress \/ IgnoredMove \/ IgnoredRelease) =>
       /\ fft_start_sample' = fft_start_sample
       /\ fft_cache' = fft_cache
       /\ timer_active' = timer_active
       /\ recomputes' = 0]_vars

\* the button was released in a toolbar mode during a drag that had moved
\* the selection and armed the timer: the timer is still armed
C32_Witness ==
  /\ last_event = "release_ignored"
  /\ toolbar_mode # ""
  /\ IsBuffer(iq_data)
  /\ fft_start_sample > 0
  /\ timer_active /\ pending_fft_update
  /\ fft_cache # <<>>


----------------------------------------------------------------------------
(* C33: the lock checkbox and the stored range agree *)

\* C33: between handlers the lock checkbox is checked if and only if a
\* fixed vertical range is stored (fixed_ylim is not None), whatever lock,
\* unlock, load, sampling-rate and home-reset operations came before.
C33_LockStateConsistent ==
  ~dead => (fix_y_axis_checkbox <=> fixed_ylim # NoLim)

\* the home button was pressed while the axis was locked: the checkbox was
\* unchecked, which recomputed once, the stored range was discarded and the
\* spectrum recomputed a second time with auto-scaling
C33_Witness ==
  /\ last_event = "home" /\ recomputes = 2
  /\ IsBuffer(iq_data)
  /\ ~fix_y_axis_checkbox /\ fixed_ylim = NoLim


----------------------------------------------------------------------------
(* C34: the automatic vertical range follows the spectrum *)

\* both bounds of range lim are within the hysteresis of [m - 80, m + 10]
NearAuto(lim, m) ==
  /\ Abs(lim[1] - AutoLim(m)[1]) <= Hysteresis
  /\ Abs(lim[2] - AutoLim(m)[2]) <= Hysteresis

\* C34: in unlocked mode, after a handler that recomputed the spectrum
\* (first render or fast update), both bounds of the displayed vertical
\* range are within 5 dB of [m - 80, m + 10], m being the maximum magnitude
\* of the spectrum on display.
C34_AutoRangeFollows ==
  (~dead /\ ~fix_y_axis_checkbox /\ recomputes >= 1) =>
    NearAuto(ylim, displayed.peak)

\* a fast update replaced a range that was 9 dB away from the candidate of
\* the new spectrum, which differs from the spectrum of the first render
C34_Witness ==
  /\ last_event \in {"release", "timeout", "slider"} /\ recomputes = 1
  /\ plot_initialized /\ ~fix_y_axis_checkbox /\ fixed_ylim = NoLim
  /\ displayed.start % 3 = 2
  /\ ylim = AutoLim(displayed.peak)
  /\ Len(fft_cache) >= 3

====
